---- MODULE Spec2Model ----
(***************************************************************************)
(* The sample driver of the Wave Function Collapse engine (run_wfc.cpp):   *)
(* the dispatcher run_wfc_cpp, the overlapping and the tiled front-ends    *)
(* with their sample loop and retry loop, and the seed increment; and one  *)
(* try of the WFC core (wave, propagator engine, observation loop) as the  *)
(* specification of the engine describes it.                               *)
(***************************************************************************)
EXTENDS Integers, Sequences, FiniteSets, TLC

VARIABLES
    args,           \* the arguments of run_wfc_cpp, the same for every call
    call,           \* number of the call being made (1..NumCalls)
    clock,          \* std::chrono::system_clock, read at entry and exit
    pc,             \* position of the call
    frontend,       \* the front-end that is running
    error,          \* what was thrown
    seed,           \* the local `seed` of the front-end
    i,              \* sample loop counter
    test,           \* retry loop counter
    finished,       \* the local `finished`
    result,         \* the local `result`, declared outside the sample loop
    results_vec,    \* the local `results_vec`
    tiles_id,       \* tiled: name -> id
    tiles,          \* tiled: the engine's tile list
    neighbors_ids,  \* tiled: the translated rule list
    engine,         \* what a WFC run returns for a seed, fixed once observed
    runs,           \* the tries of this call, in order
    warnings,       \* samples for which the failure warning was printed
    output,         \* the vector the call returned
    history,        \* summary of every call that ended
    \* one try of the WFC core
    periodic,       \* the periodic flag of the output grid
    propagator,     \* propagator[d][p]: the patterns allowed at offset d of p
    wave,           \* wave[c][p]: pattern p is still allowed at cell c
    count,          \* count[c]: the running count of allowed patterns of c
    counter,        \* counter[<<c, p, d>>]: the compatibility counters
    worklist,       \* the removals still to propagate, last in first out
    phase,          \* position of the try
    pushes,         \* pushes[<<c, p>>]: times the pair was put on the worklist
    propagated      \* the pairs taken from the worklist and fully processed

driverVars == <<args, call, clock, pc, frontend, error, seed, i, test, finished,
                result, results_vec, tiles_id, tiles, neighbors_ids, engine,
                runs, warnings, output, history>>

coreVars == <<periodic, propagator, wave, count, counter, worklist, phase,
              pushes, propagated>>

vars == <<driverVars, coreVars>>

-----------------------------------------------------------------------------
(* Bounds of the model *)

MaxSamples == 2
MaxTries == 2
NumCalls == 2
GridHeight == 1
GridWidth == 2
MaxInitialRemovals == 1

-----------------------------------------------------------------------------
(* 32-bit unsigned integers, kept at full width as two 16-bit limbs <<hi, lo>> *)

Limb == 2^16

U32(hi, lo) == <<hi, lo>>

Zero32 == U32(0, 0)

\* numeric_limits<unsigned>::max()
UnsignedMax == U32(Limb - 1, Limb - 1)

\* a < b on unsigned
Lt32(a, b) == a[1] < b[1] \/ (a[1] = b[1] /\ a[2] < b[2])

\* a + 1 on unsigned (wraps)
Add1(a) ==
    IF a[2] < Limb - 1 THEN U32(a[1], a[2] + 1)
    ELSE IF a[1] < Limb - 1 THEN U32(a[1] + 1, 0)
    ELSE Zero32

\* a - 1 on unsigned (wraps)
Sub1(a) ==
    IF a[2] > 0 THEN U32(a[1], a[2] - 1)
    ELSE IF a[1] > 0 THEN U32(a[1] - 1, Limb - 1)
    ELSE UnsignedMax

increment_seed(s) ==
    IF Lt32(s, Sub1(UnsignedMax)) THEN Add1(s) ELSE Zero32

-----------------------------------------------------------------------------
(* Array2D and the conversions *)

Array2D(h, w, d) == [height |-> h, width |-> w, data |-> d]

EmptyArray == Array2D(0, 0, <<>>)

array2d_from_vector(input, width, height) == Array2D(height, width, input)

SymmetryNames == {"X", "T", "I", "L", "\\", "P"}

\* the value returned, or the string thrown
to_symmetry(symmetry_name) ==
    IF symmetry_name = "X" THEN [ok |-> TRUE, value |-> "X"]
    ELSE IF symmetry_name = "T" THEN [ok |-> TRUE, value |-> "T"]
    ELSE IF symmetry_name = "I" THEN [ok |-> TRUE, value |-> "I"]
    ELSE IF symmetry_name = "L" THEN [ok |-> TRUE, value |-> "L"]
    ELSE IF symmetry_name = "\\" THEN [ok |-> TRUE, value |-> "backslash"]
    ELSE IF symmetry_name = "P" THEN [ok |-> TRUE, value |-> "P"]
    ELSE [ok |-> FALSE, value |-> "is an invalid Symmetry"]

pytile_to_tile(pytile) ==
    LET image == array2d_from_vector(pytile.tile, pytile.size, pytile.size)
        sym == to_symmetry(pytile.symmetry)
    IN  [ok |-> sym.ok,
         value |-> [data |-> image, symmetry |-> sym.value, weight |-> pytile.weight]]

-----------------------------------------------------------------------------
(* The inputs *)

Seeds == {U32(0, 0), U32(Limb - 1, Limb - 3), U32(Limb - 1, Limb - 1)}

SampleTypes == {0, 1, 2}

Widths == {2}

Heights == {1}

InputSizes == {0, 1}

\* the pattern side N of the overlapping front-end
PatternSizes == {1, 2}

Fill(n, c) == [k \in 1..n |-> c]

PyTile(name, size, symmetry) ==
    [name |-> name, tile |-> Fill(size * size, 1), size |-> size,
     symmetry |-> symmetry, weight |-> 1]

Neighbor(left, left_or, right, right_or) ==
    [left |-> left, left_or |-> left_or, right |-> right, right_or |-> right_or]

TileInputs ==
    { <<PyTile("A", 1, "X")>>,
      <<PyTile("A", 1, "X"), PyTile("B", 1, "L")>>,
      <<PyTile("A", 1, "T"), PyTile("B", 1, "\\"), PyTile("A", 1, "I")>>,
      <<PyTile("A", 1, "Z")>>,
      <<PyTile("A", 2, "P"), PyTile("B", 2, "x")>> }

NeighborInputs ==
    { <<>>,
      <<Neighbor("A", 0, "C", 0)>>,
      <<Neighbor("C", 1, "A", 0), Neighbor("B", 1, "A", 3),
        Neighbor("A", 2, "C", 1), Neighbor("A", 7, "A", 0)>> }

\* the retry bound written in the tiled retry loop
TiledTries == 10

Args ==
    { a \in [seed : Seeds, width : Widths, height : Heights,
             sample_type : SampleTypes,
             nb_samples : 0..MaxSamples,
             nb_tries : (0..MaxTries) \cup {TiledTries + 1},
             N : PatternSizes,
             input_img : {<<>>, <<1>>},
             input_width : InputSizes, input_height : InputSizes,
             tiles : TileInputs \cup {<<>>},
             neighbors : NeighborInputs] :
        \* the arguments a front-end does not read are left at one value
        /\ a.input_img = Fill(a.input_width * a.input_height, 1)
        /\ (a.sample_type = 0) = (a.tiles # <<>>)
        /\ a.sample_type # 0 => a.neighbors = <<>>
        /\ a.sample_type # 1 => a.input_width = 1 /\ a.input_height = 1 /\ a.N = 1
        \* the tiled front-end, which does not read nb_tries, is given a bound
        \* below and a bound above its own; the others only bounds up to MaxTries
        /\ (a.sample_type = 0) => a.nb_tries \in {0, TiledTries + 1}
        /\ a.nb_tries > MaxTries => a.sample_type = 0 }

-----------------------------------------------------------------------------
(* The WFC engine: OverlappingWFC::run and TilingWFC::run.  A run returns    *)
(* an empty array on failure and the decoded output on success, and is a    *)
(* function of its inputs and its seed.                                     *)

OutputHeight(fe) ==
    IF fe = "tiled" THEN args.height * tiles[1].data.height ELSE args.height

OutputWidth(fe) ==
    IF fe = "tiled" THEN args.width * tiles[1].data.width ELSE args.width

\* the pixels of an output stand for the seed that produced it
Pixel(s) == 1 + (s[2] % 2)

\* the N x N windows of a non-periodic exemplar: (H - N + 1) x (W - N + 1) of them
PatternsExtractable ==
    args.N <= args.input_width /\ args.N <= args.input_height

\* a try fails, with an empty result, by contradiction or, in overlapping mode,
\* because no pattern can be extracted
RunOutcomes(fe, s) ==
    IF fe = "overlapping" /\ ~PatternsExtractable
        THEN { EmptyArray }
        ELSE { EmptyArray,
               Array2D(OutputHeight(fe), OutputWidth(fe),
                       Fill(OutputHeight(fe) * OutputWidth(fe), Pixel(s))) }

WfcRun(fe, s) ==
    IF s \in DOMAIN engine THEN {engine[s]} ELSE RunOutcomes(fe, s)

-----------------------------------------------------------------------------
(* The dispatcher and the loops of the front-ends *)

\* mutant: every sample_type other than 0 is taken as overlapping
Dispatch_NoUsageError(sample_type) ==
    IF sample_type = 0 THEN "tiled" ELSE "overlapping"

\* the if / else if / else of run_wfc_cpp
Dispatch(sample_type) ==
    IF sample_type = 0 THEN "tiled"
    ELSE IF sample_type = 1 THEN "overlapping"
    ELSE "usage"

NonEmpty(r) == r.width > 0 \/ r.height > 0

\* mutant: the sample loop stops one sample early
MoreSamples_SkipLast(k, nb_samples) == k + 1 < nb_samples

\* for (i = 0; i < nb_samples; i++)
MoreSamples(k, nb_samples) == k < nb_samples

\* mutant: the overlapping retry loop runs one try too many (<= for <)
RetryBound_OneMore(fe, nb_tries) ==
    IF fe = "tiled" THEN TiledTries ELSE nb_tries + 1

\* mutant: the tiled retry loop is bounded by nb_tries
RetryBound_NbTries(fe, nb_tries) == nb_tries

\* for (test = 0; test < nb_tries && !finished; ...) / test < 10 && !finished
RetryBound(fe, nb_tries) == IF fe = "tiled" THEN TiledTries ELSE nb_tries

\* mutant: the first try of a sample is seeded from the clock
TrySeed_FromClock(s, t) == IF t > 0 THEN increment_seed(s) ELSE U32(0, clock)

\* if (test > 0) seed = increment_seed(seed);
TrySeed(s, t) == IF t > 0 THEN increment_seed(s) ELSE s

\* results_vec.insert(...) in the success branch
AppendResult(vec, r) == IF NonEmpty(r) THEN vec \o r.data ELSE vec

\* mutant: the success branch does not set finished
FinishedAfter_NotSet(fin, r) == fin

\* finished = true in the success branch
FinishedAfter(fin, r) == IF NonEmpty(r) THEN TRUE ELSE fin

\* mutant: the branches of the test after the retry loop are exchanged
WarnAfter_Exchanged(r) == NonEmpty(r)

\* the test after the retry loop that prints the warning
WarnAfter(r) == ~NonEmpty(r)

RECURSIVE InsertTiles_Overwrite(_, _, _)
\* mutant: a name seen again takes the later id (tiles_id[name] = id)
InsertTiles_Overwrite(pytiles, from, ids) ==
    IF from > Len(pytiles) THEN ids
    ELSE LET name == pytiles[from].name
             next == [n \in DOMAIN ids \cup {name} |->
                         IF n = name THEN from - 1 ELSE ids[n]]
         IN  InsertTiles_Overwrite(pytiles, from + 1, next)

RECURSIVE InsertTiles(_, _, _)
\* tiles_id.insert({pytiles[k].name, id}) for k = from..Len: insert keeps the first
InsertTiles(pytiles, from, ids) ==
    IF from > Len(pytiles) THEN ids
    ELSE LET name == pytiles[from].name
             next == IF name \in DOMAIN ids THEN ids
                     ELSE [n \in DOMAIN ids \cup {name} |->
                             IF n = name THEN from - 1 ELSE ids[n]]
         IN  InsertTiles(pytiles, from + 1, next)

EmptyMap == [n \in {} |-> 0]

RECURSIVE TranslateNeighbors_Break(_, _, _, _)
\* mutant: an unknown left name ends the loop (break for continue)
TranslateNeighbors_Break(neighbors, from, ids, acc) ==
    IF from > Len(neighbors) THEN acc
    ELSE LET neighbor == neighbors[from]
         IN  IF neighbor.left \notin DOMAIN ids
                 THEN acc
             ELSE IF neighbor.right \notin DOMAIN ids
                 THEN TranslateNeighbors_Break(neighbors, from + 1, ids, acc)
             ELSE TranslateNeighbors_Break(neighbors, from + 1, ids,
                      Append(acc, <<ids[neighbor.left], neighbor.left_or,
                                    ids[neighbor.right], neighbor.right_or>>))

RECURSIVE TranslateNeighbors(_, _, _, _)
\* the loop over neighbors that fills neighbors_ids
TranslateNeighbors(neighbors, from, ids, acc) ==
    IF from > Len(neighbors) THEN acc
    ELSE LET neighbor == neighbors[from]
         IN  IF neighbor.left \notin DOMAIN ids
                 THEN TranslateNeighbors(neighbors, from + 1, ids, acc)
             ELSE IF neighbor.right \notin DOMAIN ids
                 THEN TranslateNeighbors(neighbors, from + 1, ids, acc)
             ELSE TranslateNeighbors(neighbors, from + 1, ids,
                      Append(acc, <<ids[neighbor.left], neighbor.left_or,
                                    ids[neighbor.right], neighbor.right_or>>))

-----------------------------------------------------------------------------
(* The WFC core: grid, directions, propagator table, wave and counters *)

Patterns == {1, 2}

Directions == 0..3

\* d ^ 2
Opp(d) == (d + 2) % 4

\* 0 = +x, 1 = -y, 2 = -x, 3 = +y
OffsetX(d) == IF d = 0 THEN 1 ELSE IF d = 2 THEN -1 ELSE 0

OffsetY(d) == IF d = 1 THEN -1 ELSE IF d = 3 THEN 1 ELSE 0

\* cells are <<y, x>>
Cells == (0..(GridHeight - 1)) \X (0..(GridWidth - 1))

NoCell == <<-1, -1>>

\* c + offset(d): wrapped in a periodic grid, NoCell when out of range otherwise
Neighbour(c, d) ==
    LET y == c[1] + OffsetY(d)
        x == c[2] + OffsetX(d)
    IN  IF periodic
            THEN <<(y + GridHeight) % GridHeight, (x + GridWidth) % GridWidth>>
        ELSE IF y \in 0..(GridHeight - 1) /\ x \in 0..(GridWidth - 1)
            THEN <<y, x>>
        ELSE NoCell

AllPairs == Patterns \X Patterns

\* the table of a horizontal relation h (p left of q) and a vertical one v (p above q)
PropagatorOf(h, v) ==
    [d \in Directions |-> [p \in Patterns |->
        IF d = 0 THEN {q \in Patterns : <<p, q>> \in h}
        ELSE IF d = 2 THEN {q \in Patterns : <<q, p>> \in h}
        ELSE IF d = 3 THEN {q \in Patterns : <<p, q>> \in v}
        ELSE {q \in Patterns : <<q, p>> \in v}]]

\* the tables a front-end may build: q in propagator[d][p] iff p in propagator[opp(d)][q]
Propagators ==
    {PropagatorOf(h, v) : h \in SUBSET AllPairs, v \in {AllPairs}}
    \cup {PropagatorOf(h, h) : h \in SUBSET AllPairs}

CounterKeys == Cells \X Patterns \X Directions

\* every cell starts with all patterns allowed
FreshWave == [c \in Cells |-> [p \in Patterns |-> TRUE]]

FreshCount == [c \in Cells |-> Cardinality(Patterns)]

\* mutant: the counters start from the table of the direction itself
InitialCounter_SameDirection(prop) ==
    [k \in CounterKeys |-> Cardinality(prop[k[3]][k[2]])]

\* counter[c][p][d] = |propagator[opp(d)][p]|
InitialCounter(prop) ==
    [k \in CounterKeys |-> Cardinality(prop[Opp(k[3])][k[2]])]

NoPushes == [k \in Cells \X Patterns |-> 0]

is_possible(w, c, p) == w[c][p]

\* the mutable state the operations of one try work on
CoreState ==
    [wave |-> wave, count |-> count, counter |-> counter,
     worklist |-> worklist, pushes |-> pushes, new |-> FALSE, dead |-> FALSE]

\* mutant: the count is updated whether or not the removal is new
Unset_CountAlways(st, c, p) ==
    [st EXCEPT !.wave[c][p] = FALSE, !.count[c] = @ - 1,
               !.new = st.wave[c][p],
               !.dead = st.wave[c][p] /\ st.count[c] - 1 = 0]

\* wave.unset(c, p): new tells a new removal, dead the Contradiction it raises
Unset(st, c, p) ==
    IF ~is_possible(st.wave, c, p)
        THEN [st EXCEPT !.new = FALSE]
        ELSE [st EXCEPT !.wave[c][p] = FALSE, !.count[c] = @ - 1,
                        !.new = TRUE, !.dead = (st.count[c] - 1 = 0)]

\* propagator.add_to_propagate(c, p)
AddToPropagate(st, c, p) ==
    [st EXCEPT !.worklist = Append(@, <<c, p>>), !.pushes[<<c, p>>] = @ + 1]

\* mutant: the pair is pushed whether or not the removal is new
PushAfterUnset_Always(u, c, q) == IF u.dead THEN u ELSE AddToPropagate(u, c, q)

\* "call wave.unset(c', q); if new, push (c', q) onto the worklist"
PushAfterUnset(u, c, q) ==
    IF u.new /\ ~u.dead THEN AddToPropagate(u, c, q) ELSE u

FirstPattern(ps) == CHOOSE m \in ps : \A n \in ps : m <= n

RECURSIVE RemoveAll(_, _, _)
\* for p in ps, in index order: add_to_propagate(c, p); wave.unset(c, p)
\* (the state after each removal is a value, computed once)
RemoveAll(st, c, ps) ==
    IF ps = {} \/ st.dead THEN st
    ELSE CHOOSE r \in
            {RemoveAll(st2, c, rest) :
                st2 \in {Unset(AddToPropagate(st, c, FirstPattern(ps)), c, FirstPattern(ps))},
                rest \in {ps \ {FirstPattern(ps)}}} : TRUE

\* the <<d, q>> a popped (c, p) visits: d with c + offset(d) in the grid, q in propagator[d][p]
Targets(c, p) ==
    {t \in Directions \X Patterns :
        Neighbour(c, t[1]) # NoCell /\ t[2] \in propagator[t[1]][p]}

\* the order of the two loops: directions first, then the sorted list propagator[d][p]
FirstTarget(ts) ==
    CHOOSE m \in ts : \A n \in ts :
        m[1] < n[1] \/ (m[1] = n[1] /\ m[2] <= n[2])

\* decrement counter[c'][q][opp(d)]; when it reaches zero unset (c', q), push if new
Visit(st, c, t) ==
    LET c2 == Neighbour(c, t[1])
        key == <<c2, t[2], Opp(t[1])>>
        st1 == [st EXCEPT !.counter[key] = @ - 1]
    IN  IF st1.counter[key] = 0
            THEN PushAfterUnset(Unset(st1, c2, t[2]), c2, t[2])
            ELSE st1

RECURSIVE Decrement(_, _, _)
\* the visits of one popped pair, until a Contradiction aborts them
\* (the state after each visit is a value, computed once)
Decrement(st, c, ts) ==
    IF ts = {} \/ st.dead THEN st
    ELSE CHOOSE r \in
            {Decrement(st2, c, rest) :
                st2 \in {Visit(st, c, FirstTarget(ts))},
                rest \in {ts \ {FirstTarget(ts)}}} : TRUE

\* Shannon entropy of a cell with unit weights is log(count): count orders it
Entropy(c) == count[c]

\* wave.get_min_entropy: a cell of least entropy among those with count > 1
\* (the noise picks among equals), DONE, or CONTRADICTION
GetMinEntropy ==
    IF \E c \in Cells : count[c] = 0 THEN {"CONTRADICTION"}
    ELSE IF \A c \in Cells : count[c] = 1 THEN {"DONE"}
    ELSE {c \in Cells : count[c] > 1 /\
             \A c2 \in Cells : count[c2] > 1 => Entropy(c) <= Entropy(c2)}

\* the core is not running
CoreIdle ==
    /\ periodic = FALSE
    /\ propagator = PropagatorOf(AllPairs, AllPairs)
    /\ wave = FreshWave
    /\ count = FreshCount
    /\ counter = InitialCounter(propagator)
    /\ worklist = <<>>
    /\ phase = "idle"
    /\ pushes = NoPushes
    /\ propagated = {}

-----------------------------------------------------------------------------
(* The state machine *)

Summary(status, err, out) ==
    [status |-> status, error |-> err, output |-> out, runs |-> runs,
     warnings |-> warnings]

Init ==
    /\ args \in Args
    /\ call = 1
    /\ clock = 0
    /\ pc = "start"
    /\ frontend = "none"
    /\ error = "none"
    /\ seed = args.seed
    /\ i = 0
    /\ test = 0
    /\ finished = FALSE
    /\ result = EmptyArray
    /\ results_vec = <<>>
    /\ tiles_id = EmptyMap
    /\ tiles = <<>>
    /\ neighbors_ids = <<>>
    /\ engine = [s \in {} |-> EmptyArray]
    /\ runs = <<>>
    /\ warnings = <<>>
    /\ output = <<>>
    /\ history = <<>>
    /\ CoreIdle

\* a front-end starts its sample loop
EnterLoops(fe) ==
    /\ frontend' = fe
    /\ seed' = args.seed
    /\ i' = 0
    /\ result' = EmptyArray
    /\ results_vec' = <<>>
    /\ pc' = "samples"
    /\ UNCHANGED <<error, history>>

\* the call ends without returning
Abort(status, err) ==
    /\ pc' = status
    /\ error' = err
    /\ history' = Append(history, Summary(status, err, <<>>))
    /\ UNCHANGED <<frontend, seed, i, result, results_vec>>

\* run_wfc_cpp with sample_type = 0: read_simpletiled_instance, up to its loops
CallTiled ==
    /\ pc = "start"
    /\ Dispatch(args.sample_type) = "tiled"
    /\ clock' = clock + 1
    /\ IF \E k \in 1..Len(args.tiles) : ~pytile_to_tile(args.tiles[k]).ok
           \* the string thrown by to_symmetry leaves a noexcept function
           THEN /\ Abort("terminated", "is an invalid Symmetry")
                /\ UNCHANGED <<tiles_id, tiles, neighbors_ids>>
           ELSE /\ tiles_id' = InsertTiles(args.tiles, 1, EmptyMap)
                /\ tiles' = [k \in 1..Len(args.tiles) |->
                                pytile_to_tile(args.tiles[k]).value]
                /\ neighbors_ids' =
                       TranslateNeighbors(args.neighbors, 1, tiles_id', <<>>)
                /\ EnterLoops("tiled")
    /\ UNCHANGED <<args, call, test, finished, engine, runs, warnings, output>>
    /\ UNCHANGED coreVars

\* run_wfc_cpp with sample_type = 1: read_overlapping_instance, up to its loops
CallOverlapping ==
    /\ pc = "start"
    /\ Dispatch(args.sample_type) = "overlapping"
    /\ clock' = clock + 1
    /\ LET m == array2d_from_vector(args.input_img, args.input_width,
                                    args.input_height)
       IN  IF m.width = 0 /\ m.height = 0
               THEN Abort("thrown", "Error while loading the map to sample from.")
               ELSE EnterLoops("overlapping")
    /\ UNCHANGED <<args, call, test, finished, tiles_id, tiles, neighbors_ids,
                   engine, runs, warnings, output>>
    /\ UNCHANGED coreVars

\* run_wfc_cpp with any other sample_type
CallUnknown ==
    /\ pc = "start"
    /\ Dispatch(args.sample_type) = "usage"
    /\ clock' = clock + 1
    /\ Abort("thrown", "choose 0 (simpletiled) or 1 (overlapping) on sample_type")
    /\ UNCHANGED <<args, call, test, finished, tiles_id, tiles, neighbors_ids,
                   engine, runs, warnings, output>>
    /\ UNCHANGED coreVars

\* for (i = 0; i < nb_samples; i++) { bool finished = false; ...
BeginSample ==
    /\ pc = "samples"
    /\ MoreSamples(i, args.nb_samples)
    /\ finished' = FALSE
    /\ test' = 0
    /\ pc' = "tries"
    /\ UNCHANGED <<args, call, clock, frontend, error, seed, i, result,
                   results_vec, tiles_id, tiles, neighbors_ids, engine, runs,
                   warnings, output, history>>
    /\ UNCHANGED coreVars

\* one iteration of the retry loop: a new WFC instance is built and run
Try ==
    /\ pc = "tries"
    /\ test < RetryBound(frontend, args.nb_tries)
    /\ ~finished
    /\ seed' = TrySeed(seed, test)
    /\ \E r \in WfcRun(frontend, seed') :
          /\ engine' = [s \in DOMAIN engine \cup {seed'} |->
                           IF s = seed' THEN r ELSE engine[s]]
          /\ result' = r
          /\ results_vec' = AppendResult(results_vec, r)
          /\ finished' = FinishedAfter(finished, r)
          /\ runs' = Append(runs, [sample |-> i, test |-> test, seed |-> seed',
                                   frontend |-> frontend,
                                   instance |-> Len(runs) + 1, result |-> r])
    /\ test' = test + 1
    /\ UNCHANGED <<args, call, clock, pc, frontend, error, i, tiles_id, tiles,
                   neighbors_ids, warnings, output, history>>
    /\ UNCHANGED coreVars

\* the retry loop is left: the warning test, then i++
EndSample ==
    /\ pc = "tries"
    /\ ~(test < RetryBound(frontend, args.nb_tries) /\ ~finished)
    /\ warnings' = IF WarnAfter(result) THEN Append(warnings, i) ELSE warnings
    /\ i' = i + 1
    /\ pc' = "samples"
    /\ UNCHANGED <<args, call, clock, frontend, error, seed, test, finished,
                   result, results_vec, tiles_id, tiles, neighbors_ids, engine,
                   runs, output, history>>
    /\ UNCHANGED coreVars

\* return results_vec; run_wfc_cpp reads the clock and returns it
Return ==
    /\ pc = "samples"
    /\ ~MoreSamples(i, args.nb_samples)
    /\ clock' = clock + 1
    /\ output' = results_vec
    /\ pc' = "returned"
    /\ history' = Append(history, Summary("returned", "none", results_vec))
    /\ UNCHANGED <<args, call, frontend, error, seed, i, test, finished, result,
                   results_vec, tiles_id, tiles, neighbors_ids, engine, runs,
                   warnings>>
    /\ UNCHANGED coreVars

\* the caller calls run_wfc_cpp again with the same arguments
NextCall ==
    /\ pc \in {"returned", "thrown"}
    /\ call < NumCalls
    /\ call' = call + 1
    /\ pc' = "start"
    /\ frontend' = "none"
    /\ error' = "none"
    /\ seed' = args.seed
    /\ i' = 0
    /\ test' = 0
    /\ finished' = FALSE
    /\ result' = EmptyArray
    /\ results_vec' = <<>>
    /\ tiles_id' = EmptyMap
    /\ tiles' = <<>>
    /\ neighbors_ids' = <<>>
    /\ runs' = <<>>
    /\ warnings' = <<>>
    /\ output' = <<>>
    /\ UNCHANGED <<args, clock, engine, history>>
    /\ UNCHANGED coreVars

Next ==
    \/ CallTiled
    \/ CallOverlapping
    \/ CallUnknown
    \/ BeginSample
    \/ Try
    \/ EndSample
    \/ Return
    \/ NextCall

Spec == Init /\ [][Next]_vars

\* the program is sequential and every WFC run ends: a step that can be taken is taken
FairSpec == Spec /\ WF_vars(Next)

-----------------------------------------------------------------------------
(* One try of the WFC core *)

\* the driver is inside wfc.run() and stays there
DriverIdle ==
    /\ args = [seed |-> Zero32, width |-> GridWidth, height |-> GridHeight,
               sample_type |-> 1, nb_samples |-> 1, nb_tries |-> 1, N |-> 1,
               input_img |-> <<1>>, input_width |-> 1, input_height |-> 1,
               tiles |-> <<>>, neighbors |-> <<>>]
    /\ call = 1
    /\ clock = 0
    /\ pc = "run"
    /\ frontend = "overlapping"
    /\ error = "none"
    /\ seed = args.seed
    /\ i = 0
    /\ test = 0
    /\ finished = FALSE
    /\ result = EmptyArray
    /\ results_vec = <<>>
    /\ tiles_id = EmptyMap
    /\ tiles = <<>>
    /\ neighbors_ids = <<>>
    /\ engine = [s \in {} |-> EmptyArray]
    /\ runs = <<>>
    /\ warnings = <<>>
    /\ output = <<>>
    /\ history = <<>>

\* a fresh wave and fresh counters over the table the front-end built
CoreInit ==
    /\ DriverIdle
    /\ periodic \in BOOLEAN
    /\ propagator \in Propagators
    /\ wave = FreshWave
    /\ count = FreshCount
    /\ counter = InitialCounter(propagator)
    /\ worklist = <<>>
    /\ phase = "setup"
    /\ pushes = NoPushes
    /\ propagated = {}

\* the state an operation leaves
Store(st, ph) ==
    /\ wave' = st.wave
    /\ count' = st.count
    /\ counter' = st.counter
    /\ worklist' = st.worklist
    /\ pushes' = st.pushes
    /\ phase' = ph

InitialRemovals == Cardinality({k \in Cells \X Patterns : pushes[k] > 0})

\* an initial constraint of the front-end forbids a pattern at a cell
CoreInitialRemoval ==
    /\ phase = "setup"
    /\ InitialRemovals < MaxInitialRemovals
    /\ \E c \in Cells, p \in Patterns :
        /\ is_possible(wave, c, p)
        /\ \E st \in {Unset(AddToPropagate(CoreState, c, p), c, p)} :
            Store(st, IF st.dead THEN "failure" ELSE "setup")
    /\ UNCHANGED <<periodic, propagator, propagated>>
    /\ UNCHANGED driverVars

\* the core loop starts: the initial constraints are propagated first
CoreBegin ==
    /\ phase = "setup"
    /\ phase' = IF worklist = <<>> THEN "observe" ELSE "propagate"
    /\ UNCHANGED <<periodic, propagator, wave, count, counter, worklist,
                   pushes, propagated>>
    /\ UNCHANGED driverVars

\* one step of propagate(): pop a pair and visit its neighbours
CorePropagate ==
    /\ phase = "propagate"
    /\ worklist # <<>>
    /\ \E top \in {worklist[Len(worklist)]} :
       \E popped \in {[CoreState EXCEPT !.worklist = SubSeq(worklist, 1, Len(worklist) - 1)]} :
       \E ts \in {Targets(top[1], top[2])} :
       \E st \in {Decrement(popped, top[1], ts)} :
           /\ Store(st, IF st.dead THEN "failure"
                        ELSE IF st.worklist = <<>> THEN "observe"
                        ELSE "propagate")
           /\ propagated' = IF st.dead THEN propagated ELSE propagated \cup {top}
    /\ UNCHANGED <<periodic, propagator>>
    /\ UNCHANGED driverVars

\* observe: collapse a cell of least entropy to one of its patterns
CoreObserve ==
    /\ phase = "observe"
    /\ \E c \in GetMinEntropy \cap Cells :
       \E chosen \in {p \in Patterns : is_possible(wave, c, p)} :
       \E others \in {{p \in Patterns : p # chosen /\ is_possible(wave, c, p)}} :
       \E st \in {RemoveAll(CoreState, c, others)} :
            Store(st, IF st.dead THEN "failure" ELSE "propagate")
    /\ UNCHANGED <<periodic, propagator, propagated>>
    /\ UNCHANGED driverVars

\* the loop ends: DONE is success, CONTRADICTION is failure
CoreFinish ==
    /\ phase = "observe"
    /\ GetMinEntropy \cap Cells = {}
    /\ phase' = IF GetMinEntropy = {"DONE"} THEN "success" ELSE "failure"
    /\ UNCHANGED <<periodic, propagator, wave, count, counter, worklist,
                   pushes, propagated>>
    /\ UNCHANGED driverVars

CoreNext ==
    \/ CoreInitialRemoval
    \/ CoreBegin
    \/ CorePropagate
    \/ CoreObserve
    \/ CoreFinish

CoreSpec == CoreInit /\ [][CoreNext]_vars

\* propagate() is a loop that runs until the worklist is empty
CoreFairSpec == CoreSpec /\ WF_vars(CoreNext)

-----------------------------------------------------------------------------
(* Properties *)

Tries == 1..Len(runs)

Succeeded(k) == NonEmpty(runs[k].result)

\* the input image has pixels (the calls the other front-end checks let through)
ProperImage == args.input_width > 0 /\ args.input_height > 0

\* C1: for every seed s a call holds, increment_seed(s) is (s + 1) mod 2^32,
\* and it is 0 only for s = 2^32 - 1.
C1_IncrementIsSuccessor ==
    ProperImage =>
        /\ increment_seed(seed) = Add1(seed)
        /\ increment_seed(seed) = Zero32 => seed = UnsignedMax

\* C2: the first try of a call runs with the caller's seed; a try that follows
\* a failed try of the same sample runs on a new WFC instance with the failed
\* try's seed plus one mod 2^32.
C2_ReseedProgress ==
    ProperImage => \A k \in Tries :
        /\ k = 1 => runs[k].seed = args.seed
        /\ (k > 1 /\ runs[k].sample = runs[k - 1].sample) =>
              /\ ~Succeeded(k - 1)
              /\ runs[k].seed = Add1(runs[k - 1].seed)
              /\ \A j \in 1..(k - 1) : runs[j].instance # runs[k].instance

\* the pixel data of sample j: that of its successful try, nothing if it has none
SampleData(j) ==
    IF \E k \in Tries : runs[k].sample = j /\ Succeeded(k)
        THEN runs[CHOOSE k \in Tries : runs[k].sample = j /\ Succeeded(k)].result.data
        ELSE <<>>

RECURSIVE SamplesData(_)
\* the data of samples 0 .. n-1, in sample order
SamplesData(n) == IF n = 0 THEN <<>> ELSE SamplesData(n - 1) \o SampleData(n - 1)

SuccessfulSamples == {runs[k].sample : k \in {t \in Tries : Succeeded(t)}}

\* C3: what a call collects and returns is the concatenation, in sample order,
\* of the data of the successful samples, one result per successful sample and
\* nothing for a failed try or sample; in overlapping mode its length is the
\* number of successful samples times output_width * output_height.
C3_OutputIsSuccessfulSamples ==
    /\ \A j, k \in Tries :
          (j # k /\ Succeeded(j) /\ Succeeded(k)) => runs[j].sample # runs[k].sample
    /\ results_vec = SamplesData(args.nb_samples)
    /\ pc = "returned" => output = SamplesData(args.nb_samples)
    /\ frontend = "overlapping" =>
          Len(results_vec) =
              Cardinality(SuccessfulSamples) * args.width * args.height
    /\ (pc = "returned" /\ frontend = "overlapping"
           /\ Cardinality(SuccessfulSamples) = args.nb_samples) =>
          Len(output) = args.nb_samples * args.width * args.height

C3_Witness ==
    /\ pc = "returned"
    /\ frontend = "overlapping"
    /\ args.nb_samples = 2
    /\ warnings = <<0>>
    /\ Len(runs) = 4
    /\ Len(output) = args.width * args.height
    /\ args.width = 2

\* C4: no seed is used for more than one try of a call.
C4_NoSeedReuse ==
    ProperImage => \A j, k \in Tries : j # k => runs[j].seed # runs[k].seed

\* C5: calls with the same arguments run the same tries with the same seeds
\* and end with the same output, and the seed of every try is the seed
\* argument with increment_seed applied some number of times.
C5_Determinism ==
    /\ \A a, b \in 1..Len(history) : history[a] = history[b]
    /\ \A k \in Tries :
          runs[k].seed \in
              IF k = 1 THEN {args.seed}
              ELSE {runs[k - 1].seed, increment_seed(runs[k - 1].seed)}

C5_Witness ==
    /\ Len(history) = 2
    /\ history[2].status = "returned"
    /\ history[2].output # <<>>
    /\ \E k \in Tries : ~Succeeded(k)
    /\ call = 2

\* C6: sample_type 0 runs only the tiled front-end, 1 only the overlapping
\* front-end, and any other value throws the usage error with no try run and
\* nothing returned.
C6_Dispatch ==
    /\ args.sample_type = 0 =>
          /\ frontend \in {"none", "tiled"}
          /\ \A k \in Tries : runs[k].frontend = "tiled"
    /\ args.sample_type = 1 =>
          /\ frontend \in {"none", "overlapping"}
          /\ \A k \in Tries : runs[k].frontend = "overlapping"
    /\ args.sample_type \notin {0, 1} =>
          /\ frontend = "none"
          /\ runs = <<>>
          /\ output = <<>>
          /\ pc \in {"start", "thrown"}
          /\ pc = "thrown" =>
                error = "choose 0 (simpletiled) or 1 (overlapping) on sample_type"
          /\ \A a \in 1..Len(history) :
                history[a].status = "thrown" /\ history[a].runs = <<>>

C6_Witness ==
    /\ args.sample_type = 2
    /\ pc = "thrown"
    /\ call = 2
    /\ Len(history) = 2

HasInvalidSymmetry ==
    \E k \in 1..Len(args.tiles) : args.tiles[k].symmetry \notin SymmetryNames

\* C7: a tile with an invalid symmetry name makes the tiled call throw the
\* invalid-symmetry error to its caller, before any try, and the process goes on.
C7_InvalidSymmetrySurfaced ==
    (args.sample_type = 0 /\ HasInvalidSymmetry /\ pc # "start") =>
        /\ pc = "thrown"
        /\ error = "is an invalid Symmetry"
        /\ runs = <<>>

\* C8: an input image with input_width = 0 or input_height = 0 makes the
\* overlapping call throw the empty-exemplar error before any WFC instance is
\* built.
C8_EmptyExemplarRejected ==
    (args.sample_type = 1 /\ (args.input_width = 0 \/ args.input_height = 0)
        /\ pc # "start") =>
        /\ pc = "thrown"
        /\ error = "Error while loading the map to sample from."
        /\ runs = <<>>

KnownName(n) == \E k \in 1..Len(args.tiles) : args.tiles[k].name = n

KeptNeighbors ==
    {j \in 1..Len(args.neighbors) :
        KnownName(args.neighbors[j].left) /\ KnownName(args.neighbors[j].right)}

\* the r-th kept entry of the neighbor list
KeptAt(r) ==
    CHOOSE j \in KeptNeighbors : Cardinality({x \in KeptNeighbors : x < j}) = r - 1

\* C9: the rule list of the tiled entry is the neighbor entries whose two names
\* are names of supplied tiles, in their order, orientations unchanged, names
\* replaced by the index of a tile of that name; the others are dropped with no
\* error, and every sample still runs tries.
C9_RulesAreKnownNeighbors ==
    frontend = "tiled" =>
        /\ Len(neighbors_ids) = Cardinality(KeptNeighbors)
        /\ \A r \in 1..Len(neighbors_ids) :
              LET n == args.neighbors[KeptAt(r)]
                  rule == neighbors_ids[r]
              IN  /\ rule[2] = n.left_or
                  /\ rule[4] = n.right_or
                  /\ rule[1] + 1 \in 1..Len(args.tiles)
                  /\ rule[3] + 1 \in 1..Len(args.tiles)
                  /\ args.tiles[rule[1] + 1].name = n.left
                  /\ args.tiles[rule[3] + 1].name = n.right
        /\ error = "none"
        /\ pc = "returned" =>
              \A j \in 0..(args.nb_samples - 1) : \E k \in Tries : runs[k].sample = j

C9_Witness ==
    /\ frontend = "tiled"
    /\ pc = "returned"
    /\ Len(args.neighbors) = 1
    /\ neighbors_ids = <<>>
    /\ runs # <<>>
    /\ output # <<>>

Warned(j) == \E w \in 1..Len(warnings) : warnings[w] = j

\* C10: the warning is printed for a sample exactly when no try of that sample
\* succeeded, once, whatever the retry bound and the earlier samples.
C10_WarningIffSampleFailed ==
    /\ \A j \in 0..(i - 1) :
          Warned(j) <=> ~\E k \in Tries : runs[k].sample = j /\ Succeeded(k)
    /\ \A w \in 1..Len(warnings) : warnings[w] < i
    /\ \A v, w \in 1..Len(warnings) : v # w => warnings[v] # warnings[w]

C10_Witness ==
    /\ pc = "returned"
    /\ args.nb_samples = 2
    /\ warnings = <<0>>
    /\ frontend = "tiled"

\* C11: an overlapping call whose N is larger than the exemplar, so that no
\* pattern can be extracted, fails at once with the no-patterns error and
\* runs no try.
C11_NoPatternsIsFatal ==
    (args.sample_type = 1 /\ ProperImage /\ ~PatternsExtractable /\ pc # "start") =>
        /\ pc = "thrown"
        /\ error = "NoPatternsExtracted"
        /\ runs = <<>>

Samples == 0..(args.nb_samples - 1)

TriesOf(j) == {k \in Tries : runs[k].sample = j}

StopsAtSuccess ==
    \A k, m \in Tries :
        (Succeeded(k) /\ m > k) => runs[m].sample # runs[k].sample

\* C13: in overlapping mode a sample runs at most nb_tries tries, none after a
\* successful one, all nb_tries only when the first nb_tries - 1 failed; with
\* nb_tries = 0 nothing is run and every sample fails.
C13_OverlappingRetryPolicy ==
    frontend = "overlapping" =>
        /\ \A j \in Samples : Cardinality(TriesOf(j)) <= args.nb_tries
        /\ StopsAtSuccess
        /\ \A j \in Samples : \A k \in TriesOf(j) :
              runs[k].test = args.nb_tries - 1 =>
                  \A m \in TriesOf(j) : m < k => ~Succeeded(m)
        /\ args.nb_tries = 0 =>
              /\ runs = <<>>
              /\ \A j \in 0..(i - 1) : Warned(j)
              /\ results_vec = <<>>

C13_Witness ==
    /\ frontend = "overlapping"
    /\ pc = "returned"
    /\ args.nb_tries = 2
    /\ \E j \in Samples :
          /\ Cardinality(TriesOf(j)) = 2
          /\ \E k \in TriesOf(j) : Succeeded(k)

\* C14: in tiled mode a sample runs at most 10 tries whatever nb_tries is (0
\* and 11 included), exactly 10 when all of them fail, and none after a
\* successful one.
C14_TiledRetryPolicy ==
    frontend = "tiled" =>
        /\ \A j \in Samples : Cardinality(TriesOf(j)) <= 10
        /\ \A j \in 0..(i - 1) :
              (\A k \in TriesOf(j) : ~Succeeded(k)) => Cardinality(TriesOf(j)) = 10
        /\ StopsAtSuccess

C14_Witness ==
    /\ frontend = "tiled"
    /\ pc = "returned"
    /\ args.nb_tries = 0
    /\ args.nb_samples = 2
    /\ Cardinality(TriesOf(0)) = 10
    /\ warnings = <<0>>
    /\ Cardinality(TriesOf(1)) = 3

FirstWithName(n) ==
    CHOOSE k \in 1..Len(args.tiles) :
        /\ args.tiles[k].name = n
        /\ \A j \in 1..(k - 1) : args.tiles[j].name # n

\* C19: in the tiled entry tile i of the input is tile i of the engine's list,
\* every index in a translated rule is below the number of tiles, and a name
\* that several tiles carry stands for the first of them.
C19_TileIndices ==
    frontend = "tiled" =>
        /\ Len(tiles) = Len(args.tiles)
        /\ \A k \in 1..Len(tiles) :
              /\ tiles[k].data.data = args.tiles[k].tile
              /\ tiles[k].data.height = args.tiles[k].size
              /\ tiles[k].weight = args.tiles[k].weight
              /\ tiles_id[args.tiles[k].name] = FirstWithName(args.tiles[k].name) - 1
        /\ \A r \in 1..Len(neighbors_ids) :
              LET n == args.neighbors[KeptAt(r)]
                  rule == neighbors_ids[r]
              IN  /\ rule[1] \in 0..(Len(tiles) - 1)
                  /\ rule[3] \in 0..(Len(tiles) - 1)
                  /\ rule[1] = FirstWithName(n.left) - 1
                  /\ rule[3] = FirstWithName(n.right) - 1

C19_Witness ==
    /\ frontend = "tiled"
    /\ Len(args.tiles) = 3
    /\ args.tiles[1].name = args.tiles[3].name
    /\ Len(neighbors_ids) = 2
    /\ runs # <<>>

C15_Bounded ==
    /\ frontend = "overlapping" => Len(runs) <= args.nb_samples * args.nb_tries
    /\ frontend = "tiled" => Len(runs) <= args.nb_samples * 10
    /\ frontend # "none" =>
          /\ pc \in {"samples", "tries", "returned"}
          /\ error = "none"
          /\ i <= args.nb_samples
    /\ pc = "returned" =>
          /\ i = args.nb_samples
          /\ \A j \in Samples : Warned(j) \/ \E k \in TriesOf(j) : Succeeded(k)

\* C15: a call that has entered the sample loop of its front-end returns: no
\* failed try ends it, every one of the nb_samples samples is gone through, and
\* it runs at most nb_samples * nb_tries tries in overlapping mode and
\* nb_samples * 10 in tiled mode.
C15_CallsReturn ==
    /\ []C15_Bounded
    /\ [](pc \in {"samples", "tries"} => <>(pc = "returned"))

C15_Witness ==
    /\ pc = "returned"
    /\ frontend = "tiled"
    /\ args.nb_samples = 2
    /\ Len(runs) = 20
    /\ warnings = <<0, 1>>


-----------------------------------------------------------------------------
(* Properties of one try of the WFC core *)

Surviving(c) == {p \in Patterns : is_possible(wave, c, p)}

\* C12: whenever a try returns success, every cell has exactly one surviving
\* pattern and, for every cell c and every direction d with c + offset(d) in
\* range (or wrapped when periodic), the surviving patterns p at c and q at
\* c + offset(d) satisfy q in propagator[d][p].
C12_SuccessIsConsistent ==
    phase = "success" =>
        /\ \A c \in Cells : Cardinality(Surviving(c)) = 1
        /\ \A c \in Cells, d \in Directions :
            Neighbour(c, d) # NoCell =>
                \A p \in Surviving(c), q \in Surviving(Neighbour(c, d)) :
                    q \in propagator[d][p]

\* the removals at the neighbour in direction d that the counter of (c, p, d) has seen
Seen(c, p, d) ==
    IF Neighbour(c, d) = NoCell THEN {}
    ELSE {q \in propagator[d][p] : <<Neighbour(c, d), q>> \in propagated}

C17_Monotone ==
    /\ [](\A c \in Cells : count[c] = Cardinality(Surviving(c)))
    /\ [][\A c \in Cells, p \in Patterns :
            ~is_possible(wave, c, p) => ~is_possible(wave', c, p)]_vars

\* a counter reached zero for a pattern that was already removed, and the try went on
C17_Witness ==
    /\ phase \in {"observe", "propagate", "success"}
    /\ \E k \in CounterKeys :
        /\ counter[k] <= 0
        /\ Seen(k[1], k[2], k[3]) # {}
        /\ <<k[1], k[2]>> \in propagated

PushedAtMostOnce == \A k \in Cells \X Patterns : pushes[k] <= 1

\* the worklist loop has emptied the worklist or was aborted by a Contradiction
PropagateEnded == worklist = <<>> \/ phase = "failure"

\* C18: every call of propagate ends, with the worklist empty or with a
\* Contradiction, and each (cell, pattern) pair is pushed at most once per try.
C18_PropagateTerminates ==
    /\ []PushedAtMostOnce
    /\ (phase = "propagate") ~> PropagateEnded

\* a propagate call that processed a removal it had itself caused has ended
C18_Witness ==
    /\ phase = "observe"
    /\ worklist = <<>>
    /\ Cardinality(propagated) >= 2

====
